---- MODULE Spec2Model ----
(***************************************************************************)
(* Room booking backend: the booking controller (create / update / cancel  *)
(* / delete), the room controller's deleteRoom, and the booking helper     *)
(* (overlap query, weekly expansion, recurring-aware scanner), modelled as *)
(* request handlers running over a shared document store.  Every await of  *)
(* a handler on the store is one atomic step; the synchronous code that    *)
(* follows it up to the next await belongs to the same step.               *)
(***************************************************************************)
EXTENDS Integers, Sequences, FiniteSets, Bags, TLC

(***************************************************************************)
(* Time.  Instants are seconds since the epoch, in the server's local zone *)
(* (no daylight saving): a JavaScript Date cut to whole seconds.           *)
(***************************************************************************)
Minute == 60
Hour == 60 * Minute
Day == 24 * Hour
DaysPerWeek == 7

\* An instant from its calendar day (days since the epoch) and wall clock.
At(d, h, m, s) == d * Day + h * Hour + m * Minute + s

\* Date.prototype.getDay: 0 = Sunday; the epoch day was a Thursday.
getDay(t) == ((t \div Day) + 4) % DaysPerWeek
getHours(t) == (t % Day) \div Hour
getMinutes(t) == (t % Hour) \div Minute
\* Date.prototype.toDateString: the calendar day, the time of day dropped.
toDateString(t) == t \div Day

(***************************************************************************)
(* The "H:MM" strings of a recurrence group, as sequences of characters.   *)
(***************************************************************************)
DigitChars == <<"0", "1", "2", "3", "4", "5", "6", "7", "8", "9">>
DigitChar(n) == DigitChars[n + 1]
DigitValue(c) == CHOOSE n \in 0..9 : DigitChars[n + 1] = c

\* Number.prototype.toString for 0..99
NumToString(n) == IF n < 10 THEN <<DigitChar(n)>>
                  ELSE <<DigitChar(n \div 10), DigitChar(n % 10)>>
\* String.prototype.padStart(2, '0')
PadStart2(str) == IF Len(str) < 2 THEN <<"0">> \o str ELSE str

\* `${d.getHours()}:${d.getMinutes().toString().padStart(2, '0')}`
FormatTime(t) == NumToString(getHours(t)) \o <<":">> \o PadStart2(NumToString(getMinutes(t)))

RECURSIVE ParseDigits(_, _)
ParseDigits(str, acc) ==
    IF str = <<>> THEN acc
    ELSE ParseDigits(Tail(str), acc * 10 + DigitValue(Head(str)))
\* parseInt of a string of decimal digits
parseInt(str) == ParseDigits(str, 0)

\* timeString.split(':'): the position of the colon
ColonAt(str) == CHOOSE i \in 1..Len(str) : str[i] = ":"

combineDateAndTime(date, timeString) ==
    LET hours   == SubSeq(timeString, 1, ColonAt(timeString) - 1)
        minutes == SubSeq(timeString, ColonAt(timeString) + 1, Len(timeString))
    IN  (date \div Day) * Day + parseInt(hours) * Hour + parseInt(minutes) * Minute

(***************************************************************************)
(* generateRecurringDates: walk day by day to the first date with the      *)
(* wanted weekday, then week by week while the date is not after the end.  *)
(***************************************************************************)
\* The first loop started a day late.
RECURSIVE FirstOccurrenceAfter(_, _)
FirstOccurrenceAfter(current, dayOfWeek) ==
    IF getDay(current + Day) # dayOfWeek THEN FirstOccurrenceAfter(current + Day, dayOfWeek)
    ELSE current + Day

RECURSIVE FirstOccurrence(_, _)
FirstOccurrence(current, dayOfWeek) ==
    IF getDay(current) # dayOfWeek THEN FirstOccurrence(current + Day, dayOfWeek)
    ELSE current

\* The second loop stepping a day at a time.
RECURSIVE DailyFrom(_, _)
DailyFrom(current, end) ==
    IF current <= end THEN <<current>> \o DailyFrom(current + Day, end)
    ELSE <<>>

RECURSIVE WeeklyFrom(_, _)
WeeklyFrom(current, end) ==
    IF current <= end THEN <<current>> \o WeeklyFrom(current + DaysPerWeek * Day, end)
    ELSE <<>>

generateRecurringDates(startDate, endDate, dayOfWeek) ==
    WeeklyFrom(FirstOccurrence(startDate, dayOfWeek), endDate)

(***************************************************************************)
(* The overlap query of checkOverlap and of the override lookups: the four *)
(* $or cases, candidate [s, e] against a stored [bs, be].                  *)
(***************************************************************************)
\* The query without its third case (the candidate contains the stored one).
OverlapQueryNoContains(bs, be, s, e) ==
    \/ bs <= s /\ be > s
    \/ bs < e /\ be >= e
    \/ bs <= s /\ be >= e

OverlapQueryWrong(bs, be, s, e) ==
    \/ bs <= s /\ be >= s
    \/ bs <= e /\ be >= e
    \/ bs >= s /\ be <= e
    \/ bs <= s /\ be >= e

OverlapQuery(bs, be, s, e) ==
    \/ bs <= s /\ be > s
    \/ bs < e /\ be >= e
    \/ bs >= s /\ be <= e
    \/ bs <= s /\ be >= e

\* The two-inequality test applied to a recurrence instance.
InstanceOverlap(startTime, endTime, recurringStart, recurringEnd) ==
    startTime < recurringEnd /\ endTime > recurringStart

Range(seq) == {seq[i] : i \in 1..Len(seq)}

(***************************************************************************)
(* Users, rooms and the request inputs.                                    *)
(***************************************************************************)
Users == {"alice", "bob", "root", "sudo"}
role(u) == IF u \in {"root", "sudo"} THEN "admin" ELSE "employee"
Admins == {u \in Users : role(u) = "admin"}

AllRooms == {"r1", "r2"}
capacity(r) == IF r = "r1" THEN 2 ELSE 1

Procs == {"p1", "p2"}

\* Absent fields of a request body or of a document.
NoTime == -1
NoId == 0
NoText == ""

VARIABLES
    rooms,          \* the Room collection: the ids of the rooms that exist
    bookings,       \* the Booking collection: id -> document
    groups,         \* the RecurrenceGroup collection: id -> document
    notifications,  \* the Notification collection, a bag of documents
    now,            \* the server clock
    pc,             \* per request slot: the await the handler is suspended at
    req,            \* per request slot: the request being served
    loc,            \* per request slot: the handler's local variables
    resp,           \* per request slot: the response sent, if any
    pre,            \* per request slot: the store as it was when the request arrived
    nreq,           \* requests accepted so far
    lastBooking,    \* the newest booking id handed out
    EMAIL_USER,     \* process.env.EMAIL_USER is set
    mail            \* per request slot: the sendEmail promise the handler left behind

vars == <<rooms, bookings, groups, notifications, now, pc, req, loc, resp, pre, nreq,
          lastBooking, EMAIL_USER, mail>>
store == <<rooms, bookings, groups, notifications>>

NoLoc == [idx |-> 0, dates |-> <<>>, conflictDates |-> <<>>, group |-> NoId,
          docs |-> <<>>, created |-> <<>>, isAdminOverride |-> FALSE,
          roomFound |-> FALSE, current |-> NoTime]
NoResp == [kind |-> "none", conflictDates |-> <<>>, sent |-> 0]
NoReq == [op |-> "none", actor |-> NoText, room |-> NoText, startTime |-> NoTime,
          endTime |-> NoTime, attendees |-> <<>>, isRecurring |-> FALSE,
          recurrenceEndDate |-> NoTime, id |-> NoId, status |-> NoText]
NoPre == [bookings |-> <<>>, groups |-> <<>>, notifications |-> EmptyBag]

\* Recurrence groups are never removed: the next id is one past the newest.
NewGroupId(coll) == Cardinality(DOMAIN coll) + 1

Insert(coll, id, doc) == [i \in DOMAIN coll \cup {id} |-> IF i = id THEN doc ELSE coll[i]]
Remove(coll, id) == [i \in DOMAIN coll \ {id} |-> coll[i]]

Notice(user, type, booking, room) ==
    [user |-> user, type |-> type, booking |-> booking, room |-> room]

RECURSIVE Ascending(_)
Ascending(ids) ==
    IF ids = {} THEN <<>>
    ELSE LET m == CHOOSE i \in ids : \A k \in ids : i <= k
         IN  <<m>> \o Ascending(ids \ {m})

(***************************************************************************)
(* bookingHelper: checkOverlap and checkOverlapWithRecurring, as queries   *)
(* over the collections B (bookings) and G (recurrence groups).            *)
(***************************************************************************)
\* The same lookup without the status filter.
AnyStatusBookings(B, roomId, startTime, endTime) ==
    {i \in DOMAIN B : /\ B[i].room = roomId
                      /\ OverlapQuery(B[i].startTime, B[i].endTime, startTime, endTime)}

\* Booking.find({ room, status: 'confirmed', $or: [...] })
ConflictingBookings(B, roomId, startTime, endTime) ==
    {i \in DOMAIN B : /\ B[i].room = roomId
                      /\ B[i].status = "confirmed"
                      /\ OverlapQuery(B[i].startTime, B[i].endTime, startTime, endTime)}

\* The query without its _id: { $ne: excludeBookingId } clause.
checkOverlapNoExclude(B, roomId, startTime, endTime, excludeBookingId) ==
    ConflictingBookings(B, roomId, startTime, endTime) # {}

checkOverlap(B, roomId, startTime, endTime, excludeBookingId) ==
    \E i \in ConflictingBookings(B, roomId, startTime, endTime) :
        excludeBookingId # NoId => i # excludeBookingId

\* RecurrenceGroup.find({ room, startDate <= endTime, endDate >= startTime })
GroupsInRange(G, roomId, startTime, endTime) ==
    {g \in DOMAIN G : /\ G[g].room = roomId
                      /\ G[g].startDate <= endTime
                      /\ G[g].endDate >= startTime}

\* The loop over the groups found and over each group's expanded dates.
RecurringOverlap(G, roomId, startTime, endTime) ==
    \E g \in GroupsInRange(G, roomId, startTime, endTime) :
        \E date \in Range(generateRecurringDates(G[g].startDate, G[g].endDate,
                                                 G[g].dayOfWeek)) :
            InstanceOverlap(startTime, endTime,
                            combineDateAndTime(date, G[g].baseStartTime),
                            combineDateAndTime(date, G[g].baseEndTime))

checkOverlapWithRecurring(B, G, roomId, startTime, endTime, excludeBookingId) ==
    \/ checkOverlap(B, roomId, startTime, endTime, excludeBookingId)
    \/ RecurringOverlap(G, roomId, startTime, endTime)

(***************************************************************************)
(* The Booking schema: document defaults, validators, the pre('save') hook *)
(***************************************************************************)
StatusEnum == {"confirmed", "cancelled", "completed"}

NewBooking(room, bookedBy, startTime, endTime, attendees, recurrenceGroup) ==
    [room |-> room, bookedBy |-> bookedBy, startTime |-> startTime, endTime |-> endTime,
     attendees |-> attendees, recurrenceGroup |-> recurrenceGroup,
     status |-> "confirmed", cancelledBy |-> NoText, cancelledAt |-> NoTime]

\* The schema validators that save() and create() run.
Validates(doc) == Len(doc.attendees) > 0 /\ doc.status \in StatusEnum

\* bookingSchema.pre('save'): the first call of next() decides.
PreSaveOk(doc) == ~(doc.endTime <= doc.startTime)

SaveOk(doc) == Validates(doc) /\ PreSaveOk(doc)

(***************************************************************************)
(* Request plumbing.                                                       *)
(***************************************************************************)
Anybody(p) == TRUE
IsAdmin(p) == role(req[p].actor) = "admin"
\* if (isRecurring && recurrenceEndDate)
Recurring(r) == r.isRecurring /\ r.recurrenceEndDate # NoTime

\* res.status(..).json(..) or next(error): the handler is over.
\* The response that is sent and the step that goes on: a branch that
\* answers without return.
RespondNoReturn(p, kind, dates) ==
    /\ pc' = [pc EXCEPT ![p] = IF pc[p] = "uScan" THEN "uWrite" ELSE "done"]
    /\ resp' = [resp EXCEPT ![p] =
                  [kind |-> kind, conflictDates |-> dates,
                   sent |-> IF pc[p] \in {"idle", "done"} THEN 1 ELSE @.sent + 1]]

\* return res.status(..).json(..), or next(error) from the catch block: the
\* handler is over and one more outcome of the request has gone out.
Respond(p, kind, dates) ==
    /\ pc' = [pc EXCEPT ![p] = "done"]
    /\ resp' = [resp EXCEPT ![p] =
                  [kind |-> kind, conflictDates |-> dates,
                   sent |-> IF pc[p] \in {"idle", "done"} THEN 1 ELSE @.sent + 1]]

Goto(p, label) ==
    /\ pc' = [pc EXCEPT ![p] = label]
    /\ UNCHANGED resp

\* sendEmail(...).catch(...) without await: the handler goes on while the
\* promise is pending.
sendEmail(p) == mail' = [mail EXCEPT ![p] = "pending"]

\* A rejection of the promise that reaches the handler's catch block.
MailSettlesUncaught(p) ==
    /\ mail[p] = "pending"
    /\ \E outcome \in {"sent", "failed"} :
          /\ mail' = [mail EXCEPT ![p] = outcome]
          /\ resp' = IF outcome = "failed" THEN [resp EXCEPT ![p].kind = "error"]
                     ELSE resp
    /\ UNCHANGED <<store, now, pc, req, loc, pre, nreq, lastBooking, EMAIL_USER>>

\* transporter.sendMail settles: sendEmail returns the info or logs and
\* rethrows, and the caller's catch logs the rejection.
MailSettles(p) ==
    /\ mail[p] = "pending"
    /\ \E outcome \in {"sent", "failed"} : mail' = [mail EXCEPT ![p] = outcome]
    /\ UNCHANGED <<store, now, pc, req, loc, resp, pre, nreq, lastBooking, EMAIL_USER>>

\* The express-validator chain in front of POST /api/bookings.
bookingValidation(r) ==
    /\ r.room # NoText
    /\ r.startTime # NoTime /\ r.endTime # NoTime
    /\ Len(r.attendees) >= 1 /\ Len(r.attendees) <= 50
    /\ ~(r.endTime <= r.startTime)

\* A request arrives at an idle slot: the route's middleware runs, and the
\* handler runs up to its first await.
Start(p, r) ==
    /\ pc[p] \in {"idle", "done"}
    /\ req' = [req EXCEPT ![p] = r]
    /\ loc' = [loc EXCEPT ![p] = NoLoc]
    /\ pre' = [pre EXCEPT ![p] = [bookings |-> bookings, groups |-> groups,
                                  notifications |-> notifications]]
    /\ nreq' = nreq + 1
    /\ UNCHANGED <<store, now, lastBooking, EMAIL_USER, mail>>
    /\ CASE r.op = "create" ->
              IF bookingValidation(r) /\ Len(r.attendees) # 0
              THEN /\ pc' = [pc EXCEPT ![p] = "findRoom"]
                   /\ resp' = [resp EXCEPT ![p] = NoResp]
              ELSE Respond(p, "validation", <<>>)
         [] r.op = "update" ->
              /\ pc' = [pc EXCEPT ![p] = "uFind"]
              /\ resp' = [resp EXCEPT ![p] = NoResp]
         [] r.op = "cancel" ->
              /\ pc' = [pc EXCEPT ![p] = "xFind"]
              /\ resp' = [resp EXCEPT ![p] = NoResp]
         [] r.op = "delete" ->
              IF role(r.actor) = "admin"
              THEN /\ pc' = [pc EXCEPT ![p] = "dFind"]
                   /\ resp' = [resp EXCEPT ![p] = NoResp]
              ELSE Respond(p, "unauthorized", <<>>)
         [] r.op = "deleteRoom" ->
              IF role(r.actor) = "admin"
              THEN /\ pc' = [pc EXCEPT ![p] = "drFind"]
                   /\ resp' = [resp EXCEPT ![p] = NoResp]
              ELSE Respond(p, "unauthorized", <<>>)

(***************************************************************************)
(* createBooking                                                           *)
(***************************************************************************)
\* The time-of-day strings and the occurrence the loops are at.
baseStartTime(p) == FormatTime(req[p].startTime)
baseEndTime(p) == FormatTime(req[p].endTime)
bookingStart(p) == combineDateAndTime(loc[p].dates[loc[p].idx], baseStartTime(p))
bookingEnd(p) == combineDateAndTime(loc[p].dates[loc[p].idx], baseEndTime(p))

\* await Room.findById(room), then the capacity check.
FindRoom(p) ==
    /\ pc[p] = "findRoom"
    /\ UNCHANGED <<store, now, req, loc, pre, nreq, EMAIL_USER, mail, lastBooking>>
    /\ IF req[p].room \notin rooms THEN Respond(p, "notfound", <<>>)
       ELSE IF Len(req[p].attendees) > capacity(req[p].room)
            THEN Respond(p, "validation", <<>>)
       ELSE IF ~IsAdmin(p) THEN Goto(p, "preB")
       ELSE IF Recurring(req[p]) THEN Goto(p, "group")
       ELSE Goto(p, "admB")

\* Line 123, first await of the Scanner: Booking.findOne.
PreCheckBookings(p) ==
    /\ pc[p] = "preB"
    /\ UNCHANGED <<store, now, req, loc, pre, nreq, EMAIL_USER, mail, lastBooking>>
    /\ IF checkOverlap(bookings, req[p].room, req[p].startTime, req[p].endTime, NoId)
       THEN Respond(p, "conflict", <<>>)
       ELSE Goto(p, "preG")

\* Line 123, second await of the Scanner: RecurrenceGroup.find.
PreCheckGroups(p) ==
    /\ pc[p] = "preG"
    /\ UNCHANGED <<store, now, req, loc, pre, nreq, EMAIL_USER, mail, lastBooking>>
    /\ IF RecurringOverlap(groups, req[p].room, req[p].startTime, req[p].endTime)
       THEN Respond(p, "conflict", <<>>)
       ELSE IF Recurring(req[p]) THEN Goto(p, "group")
       ELSE Goto(p, "write")

\* await RecurrenceGroup.create(..), then generateRecurringDates.
CreateGroup(p) ==
    LET r == req[p]
        g == NewGroupId(groups)
        dayOfWeek == getDay(r.startTime)
        recurringDates == generateRecurringDates(r.startTime, r.recurrenceEndDate, dayOfWeek)
    IN  /\ pc[p] = "group"
        /\ groups' = Insert(groups, g,
                [createdBy |-> r.actor, room |-> r.room, dayOfWeek |-> dayOfWeek,
                 startDate |-> r.startTime, endDate |-> r.recurrenceEndDate,
                 baseStartTime |-> baseStartTime(p), baseEndTime |-> baseEndTime(p)])
        /\ loc' = [loc EXCEPT ![p].group = g, ![p].dates = recurringDates, ![p].idx = 1]
        /\ UNCHANGED <<rooms, bookings, notifications, now, req, pre, nreq, EMAIL_USER, mail, lastBooking>>
        /\ IF recurringDates = <<>> THEN Goto(p, "rNotify")
           ELSE IF ~IsAdmin(p) THEN Goto(p, "occB")
           ELSE Goto(p, "rFind")

\* if (conflictDates.length > 0) return res.status(400)...
RejectsAlways(conflictDates) == FALSE
RecurringRejected(conflictDates) == Len(conflictDates) > 0

\* The same turn leaving the loop for the writes as soon as an occurrence is
\* free.
OccurrenceCheckedEarly(p, overlap) ==
    LET found == IF overlap
                 THEN Append(loc[p].conflictDates, toDateString(loc[p].dates[loc[p].idx]))
                 ELSE loc[p].conflictDates
    IN  IF overlap /\ loc[p].idx < Len(loc[p].dates)
        THEN /\ loc' = [loc EXCEPT ![p].conflictDates = found, ![p].idx = @ + 1]
             /\ Goto(p, "occB")
        ELSE IF RecurringRejected(found)
        THEN /\ loc' = [loc EXCEPT ![p].conflictDates = found]
             /\ Respond(p, "conflict", found)
        ELSE /\ loc' = [loc EXCEPT ![p].conflictDates = found, ![p].idx = 1]
             /\ Goto(p, "rWrite")

\* One turn of the validation loop has its verdict: note the date, go on to
\* the next occurrence, or leave the loop.
OccurrenceChecked(p, overlap) ==
    LET found == IF overlap
                 THEN Append(loc[p].conflictDates, toDateString(loc[p].dates[loc[p].idx]))
                 ELSE loc[p].conflictDates
    IN  IF loc[p].idx < Len(loc[p].dates)
        THEN /\ loc' = [loc EXCEPT ![p].conflictDates = found, ![p].idx = @ + 1]
             /\ Goto(p, "occB")
        ELSE IF RecurringRejected(found)
        THEN /\ loc' = [loc EXCEPT ![p].conflictDates = found]
             /\ Respond(p, "conflict", found)
        ELSE /\ loc' = [loc EXCEPT ![p].conflictDates = found, ![p].idx = 1]
             /\ Goto(p, "rWrite")

\* Line 164, first await of the Scanner.
OccCheckBookings(p) ==
    /\ pc[p] = "occB"
    /\ UNCHANGED <<store, now, req, pre, nreq, EMAIL_USER, mail, lastBooking>>
    /\ IF checkOverlap(bookings, req[p].room, bookingStart(p), bookingEnd(p), NoId)
       THEN OccurrenceChecked(p, TRUE)
       ELSE Goto(p, "occG") /\ UNCHANGED loc

\* Line 164, second await of the Scanner.
OccCheckGroups(p) ==
    /\ pc[p] = "occG"
    /\ UNCHANGED <<store, now, req, pre, nreq, EMAIL_USER, mail, lastBooking>>
    /\ OccurrenceChecked(p, RecurringOverlap(groups, req[p].room,
                                            bookingStart(p), bookingEnd(p)))

\* The documents an override lookup loads, in id order.
Loaded(B, ids) == [k \in 1..Cardinality(ids) |->
                      [id |-> Ascending(ids)[k], doc |-> B[Ascending(ids)[k]]]]

\* A save() that stamps the actor and the instant and leaves the status.
CancelledStampOnly(B, d, actor, at) ==
    [B EXCEPT ![d.id].cancelledBy = IF d.doc.cancelledBy = actor THEN @ ELSE actor,
              ![d.id].cancelledAt = at]

\* conflictBooking.save() of a loaded document, and the notice to its owner
\* that follows.  save() writes the paths the handler changed.
Cancelled(B, d, actor, at) ==
    [B EXCEPT ![d.id].status = IF d.doc.status = "cancelled" THEN @ ELSE "cancelled",
              ![d.id].cancelledBy = IF d.doc.cancelledBy = actor THEN @ ELSE actor,
              ![d.id].cancelledAt = at]

\* The save without the notice.
CancelLoadedSilently(p, d, type) ==
    /\ bookings' = Cancelled(bookings, d, req[p].actor, now)
    /\ notifications' = notifications

CancelLoaded(p, d, type) ==
    /\ bookings' = Cancelled(bookings, d, req[p].actor, now)
    /\ notifications' = notifications
                        (+) SetToBag({Notice(d.doc.bookedBy, type, d.id, d.doc.room)})

\* save() fails when the document is gone or the loaded copy does not validate.
CanSave(d) == d.id \in DOMAIN bookings /\ SaveOk(d.doc)

\* Lines 188-197: the override lookup of the occurrence at hand.
RecurringOverrideFind(p) ==
    LET ids == ConflictingBookings(bookings, req[p].room, bookingStart(p), bookingEnd(p))
    IN  /\ pc[p] = "rFind"
        /\ loc' = [loc EXCEPT ![p].docs = Loaded(bookings, ids)]
        /\ UNCHANGED <<store, now, req, pre, nreq, EMAIL_USER, mail, lastBooking>>
        /\ IF ids = {} THEN Goto(p, "rWrite") ELSE Goto(p, "rCancel")

\* Lines 199-215: one turn of the cancel loop.
RecurringOverrideCancel(p) ==
    LET d == Head(loc[p].docs)
    IN  /\ pc[p] = "rCancel"
        /\ UNCHANGED <<rooms, groups, now, req, pre, nreq, EMAIL_USER, mail, lastBooking>>
        /\ IF CanSave(d)
           THEN /\ CancelLoaded(p, d, "admin_override")
                /\ loc' = [loc EXCEPT ![p].docs = Tail(@)]
                /\ IF Tail(loc[p].docs) = <<>> THEN Goto(p, "rWrite")
                   ELSE Goto(p, "rCancel")
           ELSE /\ UNCHANGED <<bookings, notifications, loc>>
                /\ Respond(p, "error", <<>>)

\* Lines 218-228: Booking.create of the occurrence at hand.
RecurringWrite(p) ==
    LET r == req[p]
        id == lastBooking + 1
        doc == NewBooking(r.room, r.actor, bookingStart(p), bookingEnd(p),
                          r.attendees, loc[p].group)
    IN  /\ pc[p] = "rWrite"
        /\ UNCHANGED <<rooms, groups, notifications, now, req, pre, nreq, EMAIL_USER, mail>>
        /\ IF SaveOk(doc)
           THEN /\ bookings' = Insert(bookings, id, doc)
                /\ lastBooking' = id
                /\ IF loc[p].idx < Len(loc[p].dates)
                   THEN /\ loc' = [loc EXCEPT ![p].created = Append(@, id),
                                              ![p].idx = @ + 1]
                        /\ IF IsAdmin(p) THEN Goto(p, "rFind") ELSE Goto(p, "rWrite")
                   ELSE /\ loc' = [loc EXCEPT ![p].created = Append(@, id)]
                        /\ Goto(p, "rNotify")
           ELSE /\ UNCHANGED <<bookings, lastBooking, loc>>
                /\ Respond(p, "error", <<>>)

BagOfSeq(seq) == [n \in Range(seq) |-> Cardinality({i \in 1..Len(seq) : seq[i] = n})]

\* NotificationService.notifyAdminsOfUserAction: one alert per other admin.
AdminAlerts(performedBy, booking, room) ==
    SetToBag({Notice(admin, "user_action_alert", booking, room) :
                 admin \in Admins \ {performedBy}})

\* attendeeId.toString() === organizer._id.toString(): an ObjectId prints as
\* its id; a populated attendee is a document and prints as the document.
SameUser(attendee, organizer, populated) == ~populated /\ attendee = organizer

\* NotificationService.notifyAttendeesOfMeeting / ...OfMeetingUpdate
AttendeeNotices(attendees, organizer, type, booking, room, populated) ==
    BagOfSeq(SelectSeq([k \in 1..Len(attendees) |->
                           Notice(attendees[k], type, booking, room)],
                       LAMBDA n : ~SameUser(n.user, organizer, populated)))

RECURSIVE MeetingNotices(_, _, _, _)
MeetingNotices(created, attendees, organizer, room) ==
    IF created = <<>> THEN EmptyBag
    ELSE AttendeeNotices(attendees, organizer, "meeting_scheduled", Head(created), room, FALSE)
         (+) MeetingNotices(Tail(created), attendees, organizer, room)

\* Lines 231-265: the notifications of a recurring create, then the response,
\* whose body reads failedDates, a name the handler never declares.
RecurringNotify(p) ==
    LET r == req[p]
        own == SetToBag({Notice(r.actor, "booking_created", NoId, r.room)})
    IN  /\ pc[p] = "rNotify"
        /\ UNCHANGED <<rooms, bookings, groups, now, req, loc, pre, nreq, EMAIL_USER, mail, lastBooking>>
        /\ IF ~IsAdmin(p) /\ loc[p].created = <<>>
           THEN \* createdBookings[0]._id throws
                notifications' = notifications (+) own
           ELSE notifications' =
                    notifications (+) own
                    (+) (IF IsAdmin(p) THEN EmptyBag
                         ELSE AdminAlerts(r.actor, loc[p].created[1], r.room))
                    (+) MeetingNotices(loc[p].created, r.attendees, r.actor, r.room)
        /\ Respond(p, "error", <<>>)

\* Line 271, first await of the Scanner.
AdminCheckBookings(p) ==
    /\ pc[p] = "admB"
    /\ UNCHANGED <<store, now, req, pre, nreq, EMAIL_USER, mail, lastBooking>>
    /\ IF checkOverlap(bookings, req[p].room, req[p].startTime, req[p].endTime, NoId)
       THEN /\ loc' = [loc EXCEPT ![p].isAdminOverride = TRUE]
            /\ Goto(p, "aFind")
       ELSE Goto(p, "admG") /\ UNCHANGED loc

\* Line 271, second await of the Scanner.
AdminCheckGroups(p) ==
    /\ pc[p] = "admG"
    /\ UNCHANGED <<store, now, req, pre, nreq, EMAIL_USER, mail, lastBooking>>
    /\ IF RecurringOverlap(groups, req[p].room, req[p].startTime, req[p].endTime)
       THEN /\ loc' = [loc EXCEPT ![p].isAdminOverride = TRUE]
            /\ Goto(p, "aFind")
       ELSE Goto(p, "write") /\ UNCHANGED loc

\* Lines 275-284: the override lookup of a single create.
OverrideFind(p) ==
    LET ids == ConflictingBookings(bookings, req[p].room, req[p].startTime, req[p].endTime)
    IN  /\ pc[p] = "aFind"
        /\ loc' = [loc EXCEPT ![p].docs = Loaded(bookings, ids)]
        /\ UNCHANGED <<store, now, req, pre, nreq, EMAIL_USER, mail, lastBooking>>
        /\ IF ids = {} THEN Goto(p, "write") ELSE Goto(p, "aCancel")

\* Lines 286-302: one turn of the cancel loop.
OverrideCancel(p) ==
    LET d == Head(loc[p].docs)
    IN  /\ pc[p] = "aCancel"
        /\ UNCHANGED <<rooms, groups, now, req, pre, nreq, EMAIL_USER, mail, lastBooking>>
        /\ IF CanSave(d)
           THEN /\ CancelLoaded(p, d, "admin_override")
                /\ loc' = [loc EXCEPT ![p].docs = Tail(@)]
                /\ IF Tail(loc[p].docs) = <<>> THEN Goto(p, "write")
                   ELSE Goto(p, "aCancel")
           ELSE /\ UNCHANGED <<bookings, notifications, loc>>
                /\ Respond(p, "error", <<>>)

\* Lines 275-302 run without interruption on store B, N: the lookup, then the
\* cancel loop up to its end or its first failing save().
RECURSIVE CancelEach(_, _, _, _, _)
CancelEach(B, N, docs, actor, at) ==
    IF docs = <<>> THEN [bookings |-> B, notifications |-> N]
    ELSE LET d == Head(docs)
         IN  IF d.id \in DOMAIN B /\ SaveOk(d.doc)
             THEN CancelEach(Cancelled(B, d, actor, at),
                             N (+) SetToBag({Notice(d.doc.bookedBy, "admin_override",
                                                    d.id, d.doc.room)}),
                             Tail(docs), actor, at)
             ELSE [bookings |-> B, notifications |-> N]

OverrideProcedure(B, N, roomId, startTime, endTime, actor, at) ==
    CancelEach(B, N, Loaded(B, ConflictingBookings(B, roomId, startTime, endTime)),
               actor, at)

\* Lines 306-315: Booking.create of a single booking.
Write(p) ==
    LET r == req[p]
        id == lastBooking + 1
        doc == NewBooking(r.room, r.actor, r.startTime, r.endTime, r.attendees, NoId)
    IN  /\ pc[p] = "write"
        /\ UNCHANGED <<rooms, groups, notifications, now, req, pre, nreq, EMAIL_USER, mail>>
        /\ IF SaveOk(doc)
           THEN /\ bookings' = Insert(bookings, id, doc)
                /\ lastBooking' = id
                /\ loc' = [loc EXCEPT ![p].created = <<id>>]
                /\ Goto(p, "notify")
           ELSE /\ UNCHANGED <<bookings, lastBooking, loc>>
                /\ Respond(p, "error", <<>>)

\* Lines 317-359: populate, the notifications, the response.  A room deleted
\* in the meantime populates as null, and booking.room._id throws.
Notify(p) ==
    LET r == req[p]
        id == loc[p].created[1]
    IN  /\ pc[p] = "notify"
        /\ UNCHANGED <<rooms, bookings, groups, now, req, loc, pre, nreq, EMAIL_USER,
                       lastBooking>>
        /\ IF r.room \notin rooms
           THEN /\ UNCHANGED <<notifications, mail>>
                /\ Respond(p, "error", <<>>)
           ELSE /\ notifications' =
                      notifications
                      (+) SetToBag({Notice(r.actor,
                                           IF loc[p].isAdminOverride THEN "admin_override"
                                           ELSE "booking_created", id, r.room)})
                      (+) (IF IsAdmin(p) THEN EmptyBag ELSE AdminAlerts(r.actor, id, r.room))
                      (+) AttendeeNotices(r.attendees, r.actor, "meeting_scheduled",
                                          id, r.room, TRUE)
                /\ IF EMAIL_USER THEN sendEmail(p) ELSE UNCHANGED mail
                /\ Respond(p, "success", <<>>)

createBooking(p) ==
    \/ FindRoom(p) \/ PreCheckBookings(p) \/ PreCheckGroups(p) \/ CreateGroup(p)
    \/ OccCheckBookings(p) \/ OccCheckGroups(p)
    \/ RecurringOverrideFind(p) \/ RecurringOverrideCancel(p) \/ RecurringWrite(p)
    \/ RecurringNotify(p)
    \/ AdminCheckBookings(p) \/ AdminCheckGroups(p) \/ OverrideFind(p) \/ OverrideCancel(p)
    \/ Write(p) \/ Notify(p)

(***************************************************************************)
(* updateBooking                                                           *)
(***************************************************************************)
\* findById, the 404, the authorization check, and the test of the body.
UpdateFind(p) ==
    LET r == req[p]
    IN  /\ pc[p] = "uFind"
        /\ UNCHANGED <<store, now, req, pre, nreq, EMAIL_USER, mail, lastBooking>>
        /\ IF r.id \notin DOMAIN bookings
           THEN Respond(p, "notfound", <<>>) /\ UNCHANGED loc
           ELSE IF ~IsAdmin(p) /\ bookings[r.id].bookedBy # r.actor
           THEN Respond(p, "unauthorized", <<>>) /\ UNCHANGED loc
           ELSE /\ loc' = [loc EXCEPT ![p].docs = <<[id |-> r.id, doc |-> bookings[r.id]]>>]
                /\ IF r.startTime # NoTime \/ r.endTime # NoTime \/ r.room # NoText
                   THEN Goto(p, "uScan")
                   ELSE Goto(p, "uWrite")

\* The same step with the overlap check left out.
UpdateScanSkipped(p) ==
    /\ pc[p] = "uScan"
    /\ UNCHANGED <<store, now, req, loc, pre, nreq, EMAIL_USER, mail, lastBooking>>
    /\ Goto(p, "uWrite")

\* Lines 391-401: checkOverlap for the new room and interval, the booking
\* itself excluded.
UpdateScan(p) ==
    LET r == req[p]
        booking == loc[p].docs[1].doc
        newStartTime == IF r.startTime # NoTime THEN r.startTime ELSE booking.startTime
        newEndTime == IF r.endTime # NoTime THEN r.endTime ELSE booking.endTime
        newRoom == IF r.room # NoText THEN r.room ELSE booking.room
    IN  /\ pc[p] = "uScan"
        /\ UNCHANGED <<store, now, req, loc, pre, nreq, EMAIL_USER, mail, lastBooking>>
        /\ IF checkOverlap(bookings, newRoom, newStartTime, newEndTime, r.id)
           THEN Respond(p, "conflict", <<>>)
           ELSE Goto(p, "uWrite")

\* The document after $set of the fields the body carries.
Updated(doc, r) ==
    [doc EXCEPT !.room = IF r.room # NoText THEN r.room ELSE @,
                !.startTime = IF r.startTime # NoTime THEN r.startTime ELSE @,
                !.endTime = IF r.endTime # NoTime THEN r.endTime ELSE @,
                !.attendees = IF r.attendees # <<>> THEN r.attendees ELSE @,
                !.status = IF r.status # NoText THEN r.status ELSE @]

\* runValidators: the validators of the paths the body sets.
UpdateValidates(r) == r.status # NoText => r.status \in StatusEnum

\* Lines 404-411: Booking.findByIdAndUpdate(id, req.body, { runValidators }).
UpdateWrite(p) ==
    LET r == req[p]
    IN  /\ pc[p] = "uWrite"
        /\ UNCHANGED <<rooms, groups, notifications, now, req, loc, pre, nreq, EMAIL_USER, mail, lastBooking>>
        /\ IF ~UpdateValidates(r)
           THEN UNCHANGED bookings /\ Respond(p, "error", <<>>)
           ELSE /\ bookings' = IF r.id \in DOMAIN bookings
                               THEN [bookings EXCEPT ![r.id] = Updated(@, r)]
                               ELSE bookings
                /\ Respond(p, "success", <<>>)

updateBooking(p) == UpdateFind(p) \/ UpdateScan(p) \/ UpdateWrite(p)

(***************************************************************************)
(* cancelBooking                                                           *)
(***************************************************************************)
\* findById(..).populate('room bookedBy attendees'), the 404, the 403.
CancelFind(p) ==
    LET r == req[p]
    IN  /\ pc[p] = "xFind"
        /\ UNCHANGED <<store, now, req, pre, nreq, EMAIL_USER, mail, lastBooking>>
        /\ IF r.id \notin DOMAIN bookings
           THEN Respond(p, "notfound", <<>>) /\ UNCHANGED loc
           ELSE IF ~IsAdmin(p) /\ bookings[r.id].bookedBy # r.actor
           THEN Respond(p, "unauthorized", <<>>) /\ UNCHANGED loc
           ELSE /\ loc' = [loc EXCEPT ![p].docs = <<[id |-> r.id, doc |-> bookings[r.id]]>>,
                                      ![p].roomFound = bookings[r.id].room \in rooms]
                /\ Goto(p, "xSave")

\* Lines 445-495: save({ validateBeforeSave: false }) still runs the
\* pre('save') hook; then the notifications and the response.
CancelSave(p) ==
    LET r == req[p]
        d == loc[p].docs[1]
    IN  /\ pc[p] = "xSave"
        /\ UNCHANGED <<rooms, groups, now, req, loc, pre, nreq, EMAIL_USER, lastBooking>>
        /\ IF d.id \in DOMAIN bookings /\ PreSaveOk(d.doc)
           THEN /\ bookings' = Cancelled(bookings, d, r.actor, now)
                /\ notifications' =
                      notifications
                      (+) (IF loc[p].roomFound
                           THEN SetToBag({Notice(d.doc.bookedBy,
                                                 IF IsAdmin(p) THEN "admin_override"
                                                 ELSE "booking_cancelled",
                                                 d.id, d.doc.room)})
                           ELSE EmptyBag)
                      (+) (IF ~IsAdmin(p) /\ loc[p].roomFound
                           THEN AdminAlerts(r.actor, d.id, d.doc.room)
                           ELSE EmptyBag)
                      (+) AttendeeNotices(d.doc.attendees, r.actor, "booking_updated",
                                          d.id, d.doc.room, TRUE)
                /\ IF EMAIL_USER /\ loc[p].roomFound THEN sendEmail(p)
                   ELSE UNCHANGED mail
                /\ Respond(p, "success", <<>>)
           ELSE /\ UNCHANGED <<bookings, notifications, mail>>
                /\ Respond(p, "error", <<>>)

cancelBooking(p) == CancelFind(p) \/ CancelSave(p)

(***************************************************************************)
(* deleteBooking                                                           *)
(***************************************************************************)
\* The same step with the cancelled test left out.
DeleteFindPastOnly(p) ==
    LET r == req[p]
    IN  /\ pc[p] = "dFind"
        /\ UNCHANGED <<store, now, req, loc, pre, nreq, EMAIL_USER, mail, lastBooking>>
        /\ IF r.id \notin DOMAIN bookings THEN Respond(p, "notfound", <<>>)
           ELSE IF ~(bookings[r.id].endTime < now)
                THEN Respond(p, "invalidstate", <<>>)
                ELSE Goto(p, "dDelete")

DeleteFind(p) ==
    LET r == req[p]
    IN  /\ pc[p] = "dFind"
        /\ UNCHANGED <<store, now, req, loc, pre, nreq, EMAIL_USER, mail, lastBooking>>
        /\ IF r.id \notin DOMAIN bookings THEN Respond(p, "notfound", <<>>)
           ELSE LET isPastBooking == bookings[r.id].endTime < now
                    isCancelled == bookings[r.id].status = "cancelled"
                IN  IF ~isPastBooking /\ ~isCancelled
                    THEN Respond(p, "invalidstate", <<>>)
                    ELSE Goto(p, "dDelete")

DeleteOne(p) ==
    /\ pc[p] = "dDelete"
    /\ bookings' = IF req[p].id \in DOMAIN bookings THEN Remove(bookings, req[p].id)
                   ELSE bookings
    /\ UNCHANGED <<rooms, groups, notifications, now, req, loc, pre, nreq, EMAIL_USER, mail, lastBooking>>
    /\ Respond(p, "success", <<>>)

deleteBooking(p) == DeleteFind(p) \/ DeleteOne(p)

(***************************************************************************)
(* deleteRoom                                                              *)
(***************************************************************************)
RoomFind(p) ==
    /\ pc[p] = "drFind"
    /\ UNCHANGED <<store, now, req, loc, pre, nreq, EMAIL_USER, mail, lastBooking>>
    /\ IF req[p].room \notin rooms THEN Respond(p, "notfound", <<>>)
       ELSE Goto(p, "drList")

\* Lines 101-109: the confirmed bookings of the room, those that start now
\* or later kept.
RoomBookings(p) ==
    LET allBookings == {i \in DOMAIN bookings : /\ bookings[i].room = req[p].room
                                                /\ bookings[i].status = "confirmed"}
        futureBookings == {i \in allBookings : bookings[i].startTime >= now}
    IN  /\ pc[p] = "drList"
        /\ loc' = [loc EXCEPT ![p].docs = Loaded(bookings, futureBookings)]
        /\ UNCHANGED <<store, now, req, pre, nreq, EMAIL_USER, mail, lastBooking>>
        /\ IF futureBookings = {} THEN Goto(p, "drDelete") ELSE Goto(p, "drCancel")

\* Lines 113-142: one turn of the loop: save, the notice to the owner, one
\* notice per attendee.
RoomCancel(p) ==
    LET d == Head(loc[p].docs)
    IN  /\ pc[p] = "drCancel"
        /\ UNCHANGED <<rooms, groups, now, req, pre, nreq, EMAIL_USER, mail, lastBooking>>
        /\ IF CanSave(d)
           THEN /\ bookings' = Cancelled(bookings, d, req[p].actor, now)
                /\ notifications' =
                      notifications
                      (+) SetToBag({Notice(d.doc.bookedBy, "room_deleted", d.id, NoText)})
                      (+) BagOfSeq([k \in 1..Len(d.doc.attendees) |->
                                       Notice(d.doc.attendees[k], "room_deleted", d.id, NoText)])
                /\ loc' = [loc EXCEPT ![p].docs = Tail(@)]
                /\ IF Tail(loc[p].docs) = <<>> THEN Goto(p, "drDelete")
                   ELSE Goto(p, "drCancel")
           ELSE /\ UNCHANGED <<bookings, notifications, loc>>
                /\ Respond(p, "error", <<>>)

\* Lines 145-160: the notice to the other admins, room.deleteOne().
RoomDelete(p) ==
    /\ pc[p] = "drDelete"
    /\ rooms' = rooms \ {req[p].room}
    /\ notifications' = notifications
                        (+) SetToBag({Notice(admin, "room_deleted", NoId, req[p].room) :
                                         admin \in Admins \ {req[p].actor}})
    /\ UNCHANGED <<bookings, groups, now, req, loc, pre, nreq, EMAIL_USER, mail, lastBooking>>
    /\ Respond(p, "success", <<>>)

deleteRoom(p) == RoomFind(p) \/ RoomBookings(p) \/ RoomCancel(p) \/ RoomDelete(p)

(***************************************************************************)
(* The clock, the requests the clients send, and the specifications.       *)
(***************************************************************************)
MaxRequests == 2        \* requests served in a run of Spec
MaxSeqRequests == 3     \* requests served in a run of SpecSeq
MaxWeeks == 1           \* a recurrence ends at most this many weeks after it starts

\* Wall-clock slots of the first Friday after the epoch, a week later, and a
\* slot across midnight.
T1000 == At(1, 10, 0, 0)
T1030 == At(1, 10, 30, 0)
T1100 == At(1, 11, 0, 0)
T1130 == At(1, 11, 30, 0)
T1200 == At(1, 12, 0, 0)
T2300 == At(1, 23, 0, 0)
T0100 == At(2, 1, 0, 0)
NextWeek(t) == t + DaysPerWeek * Day

Epoch == At(0, 0, 0, 0)
ClockValues == {At(1, 10, 30, 0), At(30, 0, 0, 0)}

Tick ==
    /\ \E t \in ClockValues : t > now /\ now' = t
    /\ UNCHANGED <<store, pc, req, loc, resp, pre, nreq, EMAIL_USER, mail, lastBooking>>

Create(actor, room, s, e, attendees) ==
    [NoReq EXCEPT !.op = "create", !.actor = actor, !.room = room, !.startTime = s,
                  !.endTime = e, !.attendees = attendees]
CreateWeekly(actor, room, s, e, attendees, until) ==
    [Create(actor, room, s, e, attendees) EXCEPT !.isRecurring = TRUE,
                                                 !.recurrenceEndDate = until]
Update(actor, id) == [NoReq EXCEPT !.op = "update", !.actor = actor, !.id = id]
Cancel(actor, id) == [NoReq EXCEPT !.op = "cancel", !.actor = actor, !.id = id]
Delete(actor, id) == [NoReq EXCEPT !.op = "delete", !.actor = actor, !.id = id]
DeleteRoom(actor, room) == [NoReq EXCEPT !.op = "deleteRoom", !.actor = actor, !.room = room]

Untils == {At(1 + DaysPerWeek * k, 23, 30, 0) : k \in 0..MaxWeeks}

SingleCreates ==
    {Create(a, "r1", iv[1], iv[2], <<"alice">>) :
        a \in {"alice", "root"},
        iv \in {<<T1000, T1100>>, <<T1100, T1200>>, <<T1030, T1130>>}}
    \cup {Create("alice", "r1", NextWeek(T1000), NextWeek(T1100), <<"alice", "bob">>),
          Create("root", "r1", T1000, NextWeek(T1100), <<"alice">>),
          Create("bob", "r2", T1000, T1100, <<"alice">>)}
RejectedCreates ==
    {Create("alice", "r1", T1000, T1100, <<"alice", "bob", "root">>),
     Create("alice", "r0", T1000, T1100, <<"alice">>),
     Create("alice", "r1", T1100, T1000, <<"alice">>),
     Create("alice", "r1", T1000, T1100, <<>>)}
WeeklyCreates ==
    {CreateWeekly(a, "r1", T1000, T1100, <<"bob">>, u) : a \in {"alice", "root"}, u \in Untils}
    \cup {CreateWeekly("root", "r1", T2300, T0100, <<"bob">>, At(1, 23, 30, 0)),
          CreateWeekly("alice", "r1", T2300, T0100, <<"bob">>, NextWeek(At(1, 23, 30, 0))),
          CreateWeekly("alice", "r1", T1000, T1100, <<"bob">>, At(1, 0, 0, 0))}
Updates(ids) ==
    {[Update("alice", i) EXCEPT !.startTime = T1100, !.endTime = T1200] : i \in ids}
    \cup {[Update("root", i) EXCEPT !.endTime = T1000] : i \in ids}
    \cup {[Update("root", i) EXCEPT !.startTime = T1030, !.endTime = T1130] : i \in ids}
    \cup {[Update("alice", i) EXCEPT !.room = "r2"] : i \in ids}
    \cup {[Update("bob", i) EXCEPT !.room = "r1"] : i \in ids}
    \cup {[Update("alice", i) EXCEPT !.attendees = <<"alice", "bob", "root">>] : i \in ids}
    \cup {[Update(a, i) EXCEPT !.status = st] :
             a \in {"bob", "root"}, i \in ids, st \in {"confirmed", "completed", "archived"}}
Cancels(ids) == {Cancel(a, i) : a \in {"alice", "bob", "root"}, i \in ids}
Deletes(ids) == {Delete(a, i) : a \in {"alice", "root"}, i \in ids}
RoomDeletes == {DeleteRoom(a, "r1") : a \in {"alice", "root"}}

\* What a client can send: any create, and any request on a booking id it
\* can have seen (or on the next id, which no booking has).
Requests ==
    SingleCreates \cup RejectedCreates \cup WeeklyCreates \cup RoomDeletes
    \cup Updates(1..lastBooking + 1) \cup Cancels(1..lastBooking + 1)
    \cup Deletes(1..lastBooking + 1)

Init ==
    /\ rooms = AllRooms
    /\ bookings = <<>>
    /\ groups = <<>>
    /\ notifications = EmptyBag
    /\ now = Epoch
    /\ pc = [p \in Procs |-> "idle"]
    /\ req = [p \in Procs |-> NoReq]
    /\ loc = [p \in Procs |-> NoLoc]
    /\ resp = [p \in Procs |-> NoResp]
    /\ pre = [p \in Procs |-> NoPre]
    /\ nreq = 0
    /\ lastBooking = 0
    /\ EMAIL_USER = FALSE
    /\ mail = [p \in Procs |-> "none"]

Step(p) ==
    \/ createBooking(p)
    \/ updateBooking(p)
    \/ cancelBooking(p)
    \/ deleteBooking(p)
    \/ deleteRoom(p)

\* Requests served concurrently: the handlers interleave at their awaits.
Arrive == \E p \in Procs : \E r \in Requests : nreq < MaxRequests /\ Start(p, r)
Next == Arrive \/ (\E p \in Procs : Step(p)) \/ Tick
Spec == Init /\ [][Next]_vars

\* Requests served one at a time: each handler runs to its response before
\* the next request arrives.
ArriveSeq == \E r \in Requests : nreq < MaxSeqRequests /\ Start("p1", r)
NextSeq == ArriveSeq \/ Step("p1") \/ Tick
SpecSeq == Init /\ [][NextSeq]_vars

\* The same, every store call completing: a handler suspended at an await
\* is resumed.
MaxLiveRequests == 2
ArriveLive == \E r \in Requests : nreq < MaxLiveRequests /\ Start("p1", r)
NextLive == ArriveLive \/ Step("p1") \/ Tick
SpecLive == Init /\ [][NextLive]_vars /\ WF_vars(Step("p1"))

\* The same, with or without the mail account configured, and with the
\* mails the handlers sent settling at any later moment or never.
InitMail ==
    /\ rooms = AllRooms
    /\ bookings = <<>>
    /\ groups = <<>>
    /\ notifications = EmptyBag
    /\ now = Epoch
    /\ pc = [p \in Procs |-> "idle"]
    /\ req = [p \in Procs |-> NoReq]
    /\ loc = [p \in Procs |-> NoLoc]
    /\ resp = [p \in Procs |-> NoResp]
    /\ pre = [p \in Procs |-> NoPre]
    /\ nreq = 0
    /\ lastBooking = 0
    /\ EMAIL_USER \in BOOLEAN
    /\ mail = [p \in Procs |-> "none"]

NextMail == ArriveSeq \/ Step("p1") \/ Tick \/ MailSettles("p1")
SpecMail == InitMail /\ [][NextMail]_vars

(***************************************************************************)
(* generateRecurringDates on its own: a recurrence group with any anchor,  *)
(* end and weekday is in the store, and the Scanner expands it             *)
(* (checkOverlapWithRecurring, the call in its loop over the groups).      *)
(***************************************************************************)
MaxAnchorDay == 6       \* anchors fall on the days 0..MaxAnchorDay
MaxEndDay == 20         \* ends fall on the days 0..MaxEndDay

AnchorDates == {At(d, h, 0, 0) : d \in 0..MaxAnchorDay, h \in {0, 10}}
EndDates == {At(d, h, 0, 0) : d \in 0..MaxEndDay, h \in {0, 10, 23}}

InitDates ==
    /\ \E startDate \in AnchorDates, endDate \in EndDates, dayOfWeek \in 0..(DaysPerWeek - 1) :
          groups = <<[createdBy |-> "root", room |-> "r1", dayOfWeek |-> dayOfWeek,
                      startDate |-> startDate, endDate |-> endDate,
                      baseStartTime |-> FormatTime(startDate),
                      baseEndTime |-> FormatTime(startDate + Hour)]>>
    /\ rooms = AllRooms
    /\ bookings = <<>>
    /\ notifications = EmptyBag
    /\ now = Epoch
    /\ pc = [p \in Procs |-> "idle"]
    /\ req = [p \in Procs |-> NoReq]
    /\ loc = [p \in Procs |-> NoLoc]
    /\ resp = [p \in Procs |-> NoResp]
    /\ pre = [p \in Procs |-> NoPre]
    /\ nreq = 0
    /\ lastBooking = 0
    /\ EMAIL_USER = FALSE
    /\ mail = [p \in Procs |-> "none"]

ExpandGroup ==
    /\ pc["p1"] = "idle"
    /\ loc' = [loc EXCEPT !["p1"].dates =
                  generateRecurringDates(groups[1].startDate, groups[1].endDate,
                                         groups[1].dayOfWeek)]
    /\ pc' = [pc EXCEPT !["p1"] = "done"]
    /\ UNCHANGED <<store, now, req, resp, pre, nreq, EMAIL_USER, mail, lastBooking>>

NextDates == ExpandGroup
SpecDates == InitDates /\ [][NextDates]_vars

(***************************************************************************)
(* generateRecurringDates one loop turn at a time, on the same inputs      *)
(***************************************************************************)
MaxLoopSteps == 8

\* Lines 32-34: the locals.
GenStart(p) ==
    /\ pc[p] = "idle"
    /\ loc' = [loc EXCEPT ![p].current = groups[1].startDate,
                          ![p].dates = <<>>, ![p].idx = 0]
    /\ Goto(p, "gSearch")
    /\ UNCHANGED <<store, now, req, pre, nreq, lastBooking, EMAIL_USER, mail>>

\* The first loop adding a week at a time.
GenSearchByWeek(p) ==
    /\ pc[p] = "gSearch"
    /\ UNCHANGED <<store, now, req, pre, nreq, lastBooking, EMAIL_USER, mail>>
    /\ IF getDay(loc[p].current) # groups[1].dayOfWeek
       THEN /\ loc[p].idx < MaxLoopSteps
            /\ loc' = [loc EXCEPT ![p].current = @ + DaysPerWeek * Day, ![p].idx = @ + 1]
            /\ Goto(p, "gSearch")
       ELSE /\ loc' = [loc EXCEPT ![p].idx = 0]
            /\ Goto(p, "gWeekly")

\* Lines 37-39: one turn of the weekday search, or its exit.
GenSearch(p) ==
    /\ pc[p] = "gSearch"
    /\ UNCHANGED <<store, now, req, pre, nreq, lastBooking, EMAIL_USER, mail>>
    /\ IF getDay(loc[p].current) # groups[1].dayOfWeek
       THEN /\ loc[p].idx < MaxLoopSteps
            /\ loc' = [loc EXCEPT ![p].current = @ + Day, ![p].idx = @ + 1]
            /\ Goto(p, "gSearch")
       ELSE /\ loc' = [loc EXCEPT ![p].idx = 0]
            /\ Goto(p, "gWeekly")

\* Lines 42-47: one turn of the weekly loop, or the return.
GenWeekly(p) ==
    /\ pc[p] = "gWeekly"
    /\ UNCHANGED <<store, now, req, pre, nreq, lastBooking, EMAIL_USER, mail>>
    /\ IF loc[p].current <= groups[1].endDate
       THEN /\ loc[p].idx < MaxLoopSteps
            /\ loc' = [loc EXCEPT ![p].dates = Append(@, loc[p].current),
                                  ![p].current = @ + DaysPerWeek * Day,
                                  ![p].idx = @ + 1]
            /\ Goto(p, "gWeekly")
       ELSE /\ UNCHANGED loc
            /\ Respond(p, "success", <<>>)

NextLoop == GenStart("p1") \/ GenSearch("p1") \/ GenWeekly("p1")
\* The function is synchronous code: once called it keeps running.
SpecLoop == InitDates /\ [][NextLoop]_vars /\ WF_vars(NextLoop)

(***************************************************************************)
(* checkOverlap on its own: two confirmed bookings of a room with any      *)
(* start and end are in the store, and the query is run for the interval   *)
(* of each against the other, as updateBooking runs it (the booking itself *)
(* excluded).                                                              *)
(***************************************************************************)
MaxSlot == 3            \* starts and ends fall on the half hours 0..MaxSlot after 10:00

SlotTimes == {At(1, 10, 0, 0) + k * 30 * Minute : k \in 0..MaxSlot}
OwnBooking(p) == IF p = "p1" THEN 1 ELSE 2

InitOverlap ==
    /\ \E s1 \in SlotTimes, e1 \in SlotTimes, s2 \in SlotTimes, e2 \in SlotTimes :
          bookings = <<NewBooking("r1", "alice", s1, e1, <<"alice">>, NoId),
                       NewBooking("r1", "bob", s2, e2, <<"bob">>, NoId)>>
    /\ rooms = AllRooms
    /\ groups = <<>>
    /\ notifications = EmptyBag
    /\ now = Epoch
    /\ pc = [p \in Procs |-> "idle"]
    /\ req = [p \in Procs |-> NoReq]
    /\ loc = [p \in Procs |-> NoLoc]
    /\ resp = [p \in Procs |-> NoResp]
    /\ pre = [p \in Procs |-> NoPre]
    /\ nreq = 0
    /\ lastBooking = 2
    /\ EMAIL_USER = FALSE
    /\ mail = [p \in Procs |-> "none"]

ScanOthers(p) ==
    LET booking == bookings[OwnBooking(p)]
    IN  /\ pc[p] = "idle"
        /\ UNCHANGED <<store, now, req, loc, pre, nreq, EMAIL_USER, mail, lastBooking>>
        /\ IF checkOverlap(bookings, booking.room, booking.startTime, booking.endTime,
                           OwnBooking(p))
           THEN Respond(p, "conflict", <<>>)
           ELSE Respond(p, "success", <<>>)

NextOverlap == \E p \in Procs : ScanOthers(p)
SpecOverlap == InitOverlap /\ [][NextOverlap]_vars

(***************************************************************************)
(* Vocabulary of the properties.  P is the slot SpecSeq serves requests    *)
(* on; pre[P] is the store as the request at hand found it.                *)
(***************************************************************************)
P == "p1"

\* Two intervals overlap: each starts before the other ends.
Overlaps(s1, e1, s2, e2) == s1 < e2 /\ s2 < e1
\* Two non-empty intervals touch: one ends exactly where the other starts.
Touches(s1, e1, s2, e2) == s1 < e1 /\ s2 < e2 /\ (e1 = s2 \/ e2 = s1)

ConfirmedOn(B, room) == {i \in DOMAIN B : B[i].room = room /\ B[i].status = "confirmed"}
\* The confirmed bookings of a room that overlap [s, e].
Colliding(B, room, s, e) ==
    {i \in ConfirmedOn(B, room) : Overlaps(B[i].startTime, B[i].endTime, s, e)}

\* A create request the validators and the room lookup let through.
WellFormed(r) ==
    /\ r.op = "create"
    /\ r.room \in rooms
    /\ Len(r.attendees) >= 1 /\ Len(r.attendees) <= capacity(r.room)
    /\ r.endTime > r.startTime

\* The occurrences a recurring request expands to: date, start and end.
Occurrences(r) ==
    LET dates == generateRecurringDates(r.startTime, r.recurrenceEndDate, getDay(r.startTime))
    IN  [k \in 1..Len(dates) |->
            [date |-> dates[k],
             startTime |-> combineDateAndTime(dates[k], FormatTime(r.startTime)),
             endTime |-> combineDateAndTime(dates[k], FormatTime(r.endTime))]]

\* The occurrences of r that overlap a confirmed booking of the room in B.
CollidingOccurrences(B, r) ==
    SelectSeq(Occurrences(r),
              LAMBDA o : Colliding(B, r.room, o.startTime, o.endTime) # {})

Added == DOMAIN bookings \ DOMAIN pre[P].bookings

SingleCreateDone(p, privileged) ==
    /\ pc[p] = "done"
    /\ req[p].op = "create"
    /\ ~Recurring(req[p])
    /\ (role(req[p].actor) = "admin") = privileged

WeeklyCreateDone(p, privileged) ==
    /\ pc[p] = "done"
    /\ req[p].op = "create"
    /\ Recurring(req[p])
    /\ (role(req[p].actor) = "admin") = privileged

(***************************************************************************)
(* C1.  In every reachable state the confirmed bookings of each room are   *)
(* pairwise non-overlapping.                                               *)
(***************************************************************************)
C1_NoDoubleBooking ==
    \A i, j \in DOMAIN bookings :
        (/\ i # j
         /\ bookings[i].room = bookings[j].room
         /\ bookings[i].status = "confirmed"
         /\ bookings[j].status = "confirmed")
        => ~Overlaps(bookings[i].startTime, bookings[i].endTime,
                     bookings[j].startTime, bookings[j].endTime)

(***************************************************************************)
(* C2.  Of two non-privileged single creates for overlapping intervals on  *)
(* the same room served concurrently, at most one ends with a persisted    *)
(* confirmed booking.                                                      *)
(***************************************************************************)
Survived(p) ==
    /\ loc[p].created # <<>>
    /\ loc[p].created[1] \in DOMAIN bookings
    /\ bookings[loc[p].created[1]].status = "confirmed"

C2_AtMostOneSurvives ==
    \A p, q \in Procs :
        (/\ p # q
         /\ SingleCreateDone(p, FALSE) /\ SingleCreateDone(q, FALSE)
         /\ req[p].room = req[q].room
         /\ Overlaps(req[p].startTime, req[p].endTime, req[q].startTime, req[q].endTime))
        => ~(Survived(p) /\ Survived(q))

(***************************************************************************)
(* C3.  A well-formed non-privileged single create whose interval overlaps *)
(* no confirmed booking of the room succeeds and adds exactly one booking: *)
(* confirmed, with the submitted room and interval, the caller organizer;  *)
(* no other booking changes.                                               *)
(***************************************************************************)
C3_FreeSlotIsBooked ==
    LET r == req[P]
    IN  (/\ SingleCreateDone(P, FALSE)
         /\ WellFormed(r)
         /\ Colliding(pre[P].bookings, r.room, r.startTime, r.endTime) = {})
        => /\ resp[P].kind = "success"
           /\ \E id \in Added :
                 bookings = Insert(pre[P].bookings, id,
                                   NewBooking(r.room, r.actor, r.startTime, r.endTime,
                                              r.attendees, NoId))

(***************************************************************************)
(* C4.  A create rejected for a validation error, an unknown room or a     *)
(* conflict has written nothing: bookings, recurrence groups and           *)
(* notifications are as the request found them.                            *)
(***************************************************************************)
C4_RejectedBeforeAnyWrite ==
    (/\ pc[P] = "done"
     /\ req[P].op = "create"
     /\ resp[P].kind \in {"validation", "notfound", "conflict"})
    => /\ bookings = pre[P].bookings
       /\ groups = pre[P].groups
       /\ notifications = pre[P].notifications

(***************************************************************************)
(* C5.  A non-privileged recurring create of which some occurrence         *)
(* overlaps a confirmed booking of the room persists no booking, at any    *)
(* point of its handling and whichever occurrence it is.                   *)
(***************************************************************************)
C5_NothingPersistedOnConflict ==
    LET r == req[P]
    IN  (/\ pc[P] # "idle"
         /\ r.op = "create" /\ Recurring(r) /\ role(r.actor) # "admin"
         /\ CollidingOccurrences(pre[P].bookings, r) # <<>>)
        => Added = {}

\* Reached: the request was rejected in the validation loop, and the one
\* occurrence that collides with a booking is not the first.
C5_Witness ==
    LET r == req[P]
    IN  /\ WeeklyCreateDone(P, FALSE)
        /\ resp[P].kind = "conflict"
        /\ loc[P].group # NoId
        /\ Len(Occurrences(r)) >= 2
        /\ CollidingOccurrences(pre[P].bookings, r) = <<Occurrences(r)[2]>>
        /\ Added = {}

(***************************************************************************)
(* C6.  When a non-privileged recurring create is rejected for conflicts,  *)
(* conflictDates holds exactly the dates of the occurrences that overlap a *)
(* confirmed booking of the room.                                          *)
(***************************************************************************)
C6_ConflictDatesExact ==
    LET r == req[P]
        hit == CollidingOccurrences(pre[P].bookings, r)
    IN  (/\ WeeklyCreateDone(P, FALSE)
         /\ resp[P].kind = "conflict"
         /\ loc[P].group # NoId)
        => resp[P].conflictDates = [k \in 1..Len(hit) |-> toDateString(hit[k].date)]

(***************************************************************************)
(* C7.  A well-formed non-privileged recurring create with at least one    *)
(* occurrence, none overlapping a confirmed booking of the room, succeeds  *)
(* and persists one confirmed booking per occurrence, each referencing the *)
(* new recurrence group.                                                   *)
(***************************************************************************)
C7_WeeklyCreateSucceeds ==
    LET r == req[P]
        occ == Occurrences(r)
    IN  (/\ WeeklyCreateDone(P, FALSE)
         /\ WellFormed(r)
         /\ occ # <<>>
         /\ CollidingOccurrences(pre[P].bookings, r) = <<>>)
        => /\ resp[P].kind = "success"
           /\ Cardinality(Added) = Len(occ)
           /\ \A k \in 1..Len(occ) :
                 \E i \in Added :
                    /\ bookings[i].status = "confirmed"
                    /\ bookings[i].startTime = occ[k].startTime
                    /\ bookings[i].endTime = occ[k].endTime
                    /\ bookings[i].recurrenceGroup \in DOMAIN groups \ DOMAIN pre[P].groups

(***************************************************************************)
(* C8.  A booking that only touches a confirmed booking of the room at an  *)
(* endpoint (both intervals non-empty) is no conflict: a well-formed       *)
(* non-privileged create that touches some confirmed booking, overlaps     *)
(* none and overlaps no recurrence instance is accepted, and a privileged  *)
(* create leaves every booking it only touches as it was.                  *)
(***************************************************************************)
TouchedBy(B, r) ==
    {i \in ConfirmedOn(B, r.room) :
        Touches(B[i].startTime, B[i].endTime, r.startTime, r.endTime)}

C8_TouchingIsNoConflict ==
    LET r == req[P]
        B == pre[P].bookings
    IN  /\ (/\ SingleCreateDone(P, FALSE)
            /\ WellFormed(r)
            /\ TouchedBy(B, r) # {}
            /\ \A i \in ConfirmedOn(B, r.room) :
                  /\ B[i].startTime < B[i].endTime
                  /\ ~Overlaps(B[i].startTime, B[i].endTime, r.startTime, r.endTime)
            /\ ~RecurringOverlap(pre[P].groups, r.room, r.startTime, r.endTime))
           => (resp[P].kind = "success" /\ Added # {})
        /\ SingleCreateDone(P, TRUE)
           => \A i \in TouchedBy(B, r) : i \in DOMAIN bookings /\ bookings[i] = B[i]

\* Reached: a privileged create has cancelled a booking it overlapped and
\* left alone one it touched; the two are ordinary bookings of employees
\* that touch each other, so the later of them was accepted while touching
\* the earlier.
C8_Witness ==
    LET r == req[P]
        B == pre[P].bookings
    IN  /\ SingleCreateDone(P, TRUE)
        /\ resp[P].kind = "success"
        /\ \E i \in TouchedBy(B, r) :
           \E j \in Colliding(B, r.room, r.startTime, r.endTime) :
              /\ bookings[i] = B[i]
              /\ bookings[j].status = "cancelled"
              /\ Touches(B[i].startTime, B[i].endTime, B[j].startTime, B[j].endTime)
              /\ role(B[i].bookedBy) # "admin" /\ role(B[j].bookedBy) # "admin"
              /\ B[i].recurrenceGroup = NoId /\ B[j].recurrenceGroup = NoId

(***************************************************************************)
(* C9.  A privileged single create for [s, e) on room R turns to cancelled *)
(* exactly the bookings that were confirmed, on R and overlapping [s, e)   *)
(* when the request arrived; every other booking is left as it was.        *)
(***************************************************************************)
C9_OverrideCancelsExactly ==
    LET r == req[P]
        B == pre[P].bookings
        hit == Colliding(B, r.room, r.startTime, r.endTime)
    IN  (SingleCreateDone(P, TRUE) /\ WellFormed(r))
        => \A i \in DOMAIN B :
              /\ i \in DOMAIN bookings
              /\ IF i \in hit THEN bookings[i].status = "cancelled"
                 ELSE bookings[i] = B[i]

(***************************************************************************)
(* C10.  A privileged recurring create creates a confirmed booking for     *)
(* every expanded occurrence, and cancels exactly the previously confirmed *)
(* bookings of the room that overlap some occurrence; the others stay as   *)
(* they were.                                                              *)
(***************************************************************************)
C10_WeeklyOverride ==
    LET r == req[P]
        B == pre[P].bookings
        occ == Occurrences(r)
        hit == {i \in ConfirmedOn(B, r.room) :
                   \E k \in 1..Len(occ) :
                      Overlaps(B[i].startTime, B[i].endTime, occ[k].startTime, occ[k].endTime)}
    IN  (WeeklyCreateDone(P, TRUE) /\ WellFormed(r))
        => /\ \A k \in 1..Len(occ) :
                 \E i \in Added : /\ bookings[i].status = "confirmed"
                                  /\ bookings[i].startTime = occ[k].startTime
                                  /\ bookings[i].endTime = occ[k].endTime
           /\ \A i \in DOMAIN B :
                 /\ i \in DOMAIN bookings
                 /\ IF i \in hit THEN bookings[i].status = "cancelled"
                    ELSE bookings[i] = B[i]

(***************************************************************************)
(* C11.  The override procedure is idempotent in effect: once the lookup   *)
(* and the cancel loop of a privileged create have run (to the end of the  *)
(* loop or to a failing save), running them again at once for the same     *)
(* room and candidate interval cancels nothing and leaves bookings and     *)
(* notifications as they are.                                              *)
(***************************************************************************)
OverrideEnded(p) ==
    /\ req[p].op = "create" /\ IsAdmin(p)
    /\ \/ pc[p] = "write" /\ loc[p].isAdminOverride
       \/ pc[p] = "rWrite"
       \/ pc[p] = "done" /\ resp[p].kind = "error" /\ loc[p].docs # <<>>

CandidateStart(p) == IF Recurring(req[p]) THEN bookingStart(p) ELSE req[p].startTime
CandidateEnd(p) == IF Recurring(req[p]) THEN bookingEnd(p) ELSE req[p].endTime

C11_OverrideIdempotent ==
    OverrideEnded(P)
    => OverrideProcedure(bookings, notifications, req[P].room, CandidateStart(P),
                         CandidateEnd(P), req[P].actor, now)
       = [bookings |-> bookings, notifications |-> notifications]

\* Reached: the cancel loop of a single privileged create has just cancelled
\* two bookings.
C11_Witness ==
    /\ pc[P] = "write" /\ IsAdmin(P) /\ loc[P].isAdminOverride
    /\ Cardinality({i \in ConfirmedOn(pre[P].bookings, req[P].room) :
                       bookings[i].status = "cancelled"}) >= 2

(***************************************************************************)
(* C12.  Cancel-then-recreate: once a booking (standalone or an occurrence *)
(* of a recurrence group) has been cancelled, a well-formed non-privileged *)
(* create for the identical interval on the same room, which no confirmed  *)
(* booking overlaps, succeeds and stores its booking.                      *)
(***************************************************************************)
C12_CancelThenRecreate ==
    LET r == req[P]
        B == pre[P].bookings
    IN  (/\ SingleCreateDone(P, FALSE)
         /\ WellFormed(r)
         /\ \E i \in DOMAIN B : /\ B[i].status = "cancelled"
                                /\ B[i].room = r.room
                                /\ B[i].startTime = r.startTime
                                /\ B[i].endTime = r.endTime
         /\ Colliding(B, r.room, r.startTime, r.endTime) = {})
        => (resp[P].kind = "success" /\ Added # {})

(***************************************************************************)
(* C13.  cancelled is terminal: in no step does a booking whose stored     *)
(* status is cancelled get another status; it stays cancelled or is        *)
(* deleted.                                                                *)
(***************************************************************************)
C13_CancelledIsTerminal ==
    [][\A i \in DOMAIN bookings :
          bookings[i].status = "cancelled"
          => (i \in DOMAIN bookings' => bookings'[i].status = "cancelled")]_vars

(***************************************************************************)
(* C14.  A booking goes from confirmed to cancelled only in the save of a  *)
(* cancel request of its organizer or of a privileged actor, or in the     *)
(* cancel loop of a privileged create whose candidate interval overlaps    *)
(* it.                                                                     *)
(***************************************************************************)
C14_OnlyCancelOrOverrideCancels ==
    [][\A i \in DOMAIN bookings :
          (/\ bookings[i].status = "confirmed"
           /\ i \in DOMAIN bookings'
           /\ bookings'[i].status = "cancelled")
          => \E p \in Procs :
                \/ /\ pc[p] = "xSave" /\ req[p].id = i
                   /\ (IsAdmin(p) \/ bookings[i].bookedBy = req[p].actor)
                \/ /\ pc[p] \in {"aCancel", "rCancel"} /\ IsAdmin(p)
                   /\ bookings[i].room = req[p].room
                   /\ Overlaps(bookings[i].startTime, bookings[i].endTime,
                               CandidateStart(p), CandidateEnd(p))]_vars

(***************************************************************************)
(* C15.  Delete removes a booking if and only if its status is cancelled   *)
(* or its end is strictly before the current instant: the handler's test   *)
(* lets exactly those bookings through, a refused delete answers           *)
(* InvalidState and changes nothing, and an accepted one removes that      *)
(* booking and nothing else.                                               *)
(***************************************************************************)
C15_DeleteIffCancelledOrPast ==
    [][LET id == req[P].id
       IN  /\ (pc[P] = "dFind" /\ pc'[P] # "dFind" /\ id \in DOMAIN bookings)
              => /\ store' = store
                 /\ IF bookings[id].status = "cancelled" \/ bookings[id].endTime < now
                    THEN pc'[P] = "dDelete"
                    ELSE pc'[P] = "done" /\ resp'[P].kind = "invalidstate"
           /\ (pc[P] = "dDelete" /\ pc'[P] # "dDelete")
              => /\ resp'[P].kind = "success"
                 /\ id \notin DOMAIN bookings'
                 /\ \A j \in DOMAIN bookings \ {id} :
                       j \in DOMAIN bookings' /\ bookings'[j] = bookings[j]
                 /\ <<rooms, groups, notifications>>' = <<rooms, groups, notifications>>]_vars

\* Reached: an accepted delete has removed a booking that was still
\* confirmed (its end had passed), after a cancelled booking was there too.
C15_Witness ==
    LET id == req[P].id
    IN  /\ pc[P] = "done" /\ req[P].op = "delete" /\ resp[P].kind = "success"
        /\ id \in DOMAIN pre[P].bookings /\ id \notin DOMAIN bookings
        /\ pre[P].bookings[id].status = "confirmed"
        /\ pre[P].bookings[id].endTime < now
        /\ \E j \in DOMAIN bookings : bookings[j].status = "cancelled"

(***************************************************************************)
(* C16.  An update or a cancel of a booking by an actor who is neither its *)
(* organizer nor privileged is answered Unauthorized and leaves the        *)
(* booking, every other booking and the notifications unchanged.           *)
(***************************************************************************)
C16_UnauthorizedChangesNothing ==
    LET r == req[P]
    IN  (/\ pc[P] = "done"
         /\ r.op \in {"update", "cancel"}
         /\ r.id \in DOMAIN pre[P].bookings
         /\ role(r.actor) # "admin"
         /\ pre[P].bookings[r.id].bookedBy # r.actor)
        => /\ resp[P].kind = "unauthorized"
           /\ bookings = pre[P].bookings
           /\ notifications = pre[P].notifications

\* Reached: a cancel by a stranger was refused on a confirmed booking that
\* has notifications about it in the store.
C16_Witness ==
    LET r == req[P]
    IN  /\ pc[P] = "done" /\ r.op = "cancel" /\ resp[P].kind = "unauthorized"
        /\ r.id \in DOMAIN bookings
        /\ bookings[r.id].status = "confirmed"
        /\ bookings[r.id].bookedBy # r.actor
        /\ notifications # EmptyBag

(***************************************************************************)
(* C17.  The update path has no override: an update by the organizer or a  *)
(* privileged actor that sets room, start or end so that the booking would *)
(* overlap another confirmed booking of the target room is rejected with a *)
(* conflict; the booking keeps its room and interval and no other booking  *)
(* is cancelled or modified.                                               *)
(***************************************************************************)
UpdateTarget(r, B) ==
    [room |-> IF r.room # NoText THEN r.room ELSE B[r.id].room,
     startTime |-> IF r.startTime # NoTime THEN r.startTime ELSE B[r.id].startTime,
     endTime |-> IF r.endTime # NoTime THEN r.endTime ELSE B[r.id].endTime]

UpdateCollides(r, B) ==
    /\ r.op = "update"
    /\ r.id \in DOMAIN B
    /\ (role(r.actor) = "admin" \/ B[r.id].bookedBy = r.actor)
    /\ (r.room # NoText \/ r.startTime # NoTime \/ r.endTime # NoTime)
    /\ LET t == UpdateTarget(r, B)
       IN  Colliding(B, t.room, t.startTime, t.endTime) \ {r.id} # {}

C17_UpdateHasNoOverride ==
    (pc[P] = "done" /\ UpdateCollides(req[P], pre[P].bookings))
    => (resp[P].kind = "conflict" /\ bookings = pre[P].bookings)

\* Reached: a move to another room, where a confirmed booking holds the
\* slot, was rejected.
C17_Witness ==
    LET r == req[P]
    IN  /\ pc[P] = "done" /\ UpdateCollides(r, pre[P].bookings)
        /\ r.room # NoText /\ r.room # pre[P].bookings[r.id].room
        /\ pre[P].bookings[r.id].status = "confirmed"
        /\ resp[P].kind = "conflict"

(***************************************************************************)
(* C18.  Every stored booking ends after it starts.                        *)
(***************************************************************************)
C18_EndAfterStart ==
    \A i \in DOMAIN bookings : bookings[i].endTime > bookings[i].startTime

(***************************************************************************)
(* C19.  Every stored booking has at least one attendee and no more        *)
(* attendees than the capacity of its room.                                *)
(***************************************************************************)
C19_AttendeesWithinCapacity ==
    \A i \in DOMAIN bookings :
        /\ Len(bookings[i].attendees) >= 1
        /\ Len(bookings[i].attendees) <= capacity(bookings[i].room)

(***************************************************************************)
(* C20.  For every anchor, end and weekday w in 0..6, every date that      *)
(* generateRecurringDates returns has weekday w and is not later than the  *)
(* end, and consecutive dates are exactly 7 days apart, so the sequence is *)
(* strictly increasing.                                                    *)
(***************************************************************************)
C20_DatesAreWeekly ==
    pc[P] = "done"
    => LET g == groups[1]
           dates == loc[P].dates
       IN  \A k \in 1..Len(dates) :
              /\ getDay(dates[k]) = g.dayOfWeek
              /\ dates[k] <= g.endDate
              /\ k < Len(dates) => /\ dates[k] < dates[k + 1]
                                   /\ dates[k + 1] - dates[k] = DaysPerWeek * Day

\* Reached: three dates or more, from an anchor that is not on the weekday.
C20_Witness ==
    /\ pc[P] = "done"
    /\ Len(loc[P].dates) >= 3
    /\ getDay(groups[1].startDate) # groups[1].dayOfWeek

(***************************************************************************)
(* C21.  generateRecurringDates is complete: its first date is the         *)
(* earliest day on or after the anchor, at most 6 days later, whose        *)
(* weekday is w; it returns every such day, week by week, that is not      *)
(* later than the end; and it returns nothing exactly when that first day  *)
(* is later than the end.                                                  *)
(***************************************************************************)
FirstMatch(anchor, w) ==
    anchor + Day * (CHOOSE k \in 0..(DaysPerWeek - 1) :
                       /\ getDay(anchor + k * Day) = w
                       /\ \A j \in 0..(k - 1) : getDay(anchor + j * Day) # w)

C21_DatesAreComplete ==
    pc[P] = "done"
    => LET g == groups[1]
           dates == loc[P].dates
           first == FirstMatch(g.startDate, g.dayOfWeek)
       IN  /\ (dates = <<>>) <=> (first > g.endDate)
           /\ dates # <<>> => dates[1] = first
           /\ Range(dates) = {d \in {g.startDate + k * Day : k \in 0..(MaxEndDay + DaysPerWeek)} :
                                 getDay(d) = g.dayOfWeek /\ d <= g.endDate}

\* Reached: nothing is returned although the anchor is before the end, the
\* first matching day falling after it.
C21_Witness ==
    /\ pc[P] = "done"
    /\ loc[P].dates = <<>>
    /\ groups[1].startDate < groups[1].endDate

(***************************************************************************)
(* C22.  The four-case query is symmetric: with two bookings in the store, *)
(* the query for the interval of the first finds the second exactly when   *)
(* the query for the interval of the second finds the first; and the query *)
(* for an interval identical to a stored non-empty one finds it.           *)
(***************************************************************************)
C22_QueryIsSymmetric ==
    (pc["p1"] = "done" /\ pc["p2"] = "done")
    => /\ resp["p1"].kind = resp["p2"].kind
       /\ (/\ bookings[1].startTime = bookings[2].startTime
           /\ bookings[1].endTime = bookings[2].endTime
           /\ bookings[1].startTime < bookings[1].endTime)
          => resp["p1"].kind = "conflict"

\* Reached: both queries match, one interval empty and at the start of the
\* other.
C22_Witness ==
    /\ pc["p1"] = "done" /\ pc["p2"] = "done"
    /\ resp["p1"].kind = "conflict"
    /\ bookings[1].startTime = bookings[1].endTime
    /\ bookings[2].startTime = bookings[1].startTime
    /\ bookings[2].startTime < bookings[2].endTime

(***************************************************************************)
(* C23.  The four-case query gives the verdict of the two-inequality       *)
(* predicate of the recurrence instances: for the candidate interval of    *)
(* the request at hand and every stored booking, the query matches exactly *)
(* when bs < e and s < be.                                                 *)
(***************************************************************************)
HasCandidate(p) ==
    /\ pc[p] \notin {"idle", "done"}
    /\ \/ req[p].op = "create" /\ ~Recurring(req[p])
       \/ req[p].op = "update" /\ pc[p] = "uScan"

CandidateOf(p) ==
    IF req[p].op = "update" THEN UpdateTarget(req[p], bookings)
    ELSE [room |-> req[p].room, startTime |-> req[p].startTime, endTime |-> req[p].endTime]

C23_QueryIsTwoInequalities ==
    HasCandidate(P)
    => \A i \in DOMAIN bookings :
          OverlapQuery(bookings[i].startTime, bookings[i].endTime,
                       CandidateOf(P).startTime, CandidateOf(P).endTime)
          <=> InstanceOverlap(CandidateOf(P).startTime, CandidateOf(P).endTime,
                              bookings[i].startTime, bookings[i].endTime)

(***************************************************************************)
(* C24.  The group scan adds nothing to the scan of the stored bookings:   *)
(* for every room and candidate interval, when no confirmed booking of the *)
(* room overlaps the candidate, the expansion of the room's recurrence     *)
(* groups finds no conflict either.  Stated between requests, when no      *)
(* create is halfway through its writes.                                   *)
(***************************************************************************)
ProbeIntervals == {<<T1000, T1100>>, <<T1030, T1130>>, <<T1100, T1200>>,
                   <<NextWeek(T1000), NextWeek(T1100)>>}

C24_GroupScanIsRedundant ==
    pc[P] \in {"idle", "done"}
    => \A room \in AllRooms : \A c \in ProbeIntervals :
        Colliding(bookings, room, c[1], c[2]) = {}
        => ~RecurringOverlap(groups, room, c[1], c[2])

(***************************************************************************)
(* C25.  A create that ends in anything but success has left the bookings  *)
(* as they were, and a recurring create that wrote every one of its        *)
(* occurrences ends in success.                                            *)
(***************************************************************************)
AllOccurrencesWritten(r) ==
    /\ Len(Occurrences(r)) >= 1
    /\ Cardinality(Added) = Len(Occurrences(r))
    /\ \A k \in 1..Len(Occurrences(r)) :
          \E i \in Added : /\ bookings[i].room = r.room
                           /\ bookings[i].startTime = Occurrences(r)[k].startTime
                           /\ bookings[i].endTime = Occurrences(r)[k].endTime

C25_NoPartialEffect ==
    (pc[P] = "done" /\ req[P].op = "create")
    => /\ resp[P].kind # "success" => bookings = pre[P].bookings
       /\ (Recurring(req[P]) /\ AllOccurrencesWritten(req[P]))
          => resp[P].kind = "success"

(***************************************************************************)
(* C26.  A cancel by the organizer or an admin succeeds on every existing  *)
(* booking: afterwards it is cancelled by the caller, its room, interval,  *)
(* organizer and attendees are as before, and so is every other booking.   *)
(***************************************************************************)
AuthorizedCancel(r, B) ==
    /\ r.op = "cancel"
    /\ r.id \in DOMAIN B
    /\ (role(r.actor) = "admin" \/ B[r.id].bookedBy = r.actor)

C26_CancelAlwaysSucceeds ==
    (pc[P] = "done" /\ AuthorizedCancel(req[P], pre[P].bookings))
    => LET i == req[P].id
           old == pre[P].bookings
       IN  /\ resp[P].kind = "success"
           /\ DOMAIN bookings = DOMAIN old
           /\ bookings[i].status = "cancelled"
           /\ bookings[i].cancelledBy = req[P].actor
           /\ bookings[i].room = old[i].room
           /\ bookings[i].startTime = old[i].startTime
           /\ bookings[i].endTime = old[i].endTime
           /\ bookings[i].bookedBy = old[i].bookedBy
           /\ bookings[i].attendees = old[i].attendees
           /\ \A j \in DOMAIN old \ {i} : bookings[j] = old[j]

(***************************************************************************)
(* C27.  In a recurring create by a non-admin the validation loop has      *)
(* scanned every occurrence before the first Booking.create is issued, and *)
(* once the request is at its writes it makes no validation read again.    *)
(***************************************************************************)
ValidationReads == {"preB", "preG", "occB", "occG"}

C27_Step ==
    /\ (pc[P] \in {"occB", "occG"} /\ pc'[P] = "rWrite")
       => /\ loc[P].idx = Len(loc[P].dates)
          /\ loc'[P].idx = 1
          /\ loc'[P].created = <<>>
    /\ (pc[P] \in {"rWrite", "rNotify"} /\ ~IsAdmin(P))
       => pc'[P] \notin ValidationReads

C27_ValidateBeforeWrite == [][C27_Step]_vars

\* Reached: a weekly request of an employee with two occurrences passed the
\* whole validation loop and its first Booking.create was issued.
C27_Witness ==
    /\ WeeklyCreateDone(P, FALSE)
    /\ Len(Occurrences(req[P])) >= 2
    /\ resp[P].kind = "error"

(***************************************************************************)
(* C28.  In a create by an admin, with no other request in flight, every   *)
(* confirmed booking that overlapped the candidate has been cancelled in   *)
(* the store when the new booking is written: at that step no confirmed    *)
(* booking of the room overlaps the booking being written.                 *)
(***************************************************************************)
C28_Step ==
    (req[P].op = "create" /\ IsAdmin(P))
    => \A n \in DOMAIN bookings' \ DOMAIN bookings :
          LET new == bookings'[n]
          IN  /\ Colliding(bookings, new.room, new.startTime, new.endTime) = {}
              /\ \A i \in Colliding(pre[P].bookings, new.room,
                                    new.startTime, new.endTime) :
                    bookings[i].status = "cancelled"

C28_CancelBeforeWrite == [][C28_Step]_vars

\* Reached: an admin's create wrote its booking over one that was confirmed
\* when the request arrived.
C28_Witness ==
    /\ req[P].op = "create" /\ IsAdmin(P)
    /\ \E n \in Added :
          \E i \in Colliding(pre[P].bookings, bookings[n].room,
                             bookings[n].startTime, bookings[n].endTime) :
              bookings[i].status = "cancelled"

(***************************************************************************)
(* C29.  An update that sets room, start or end is rejected exactly when   *)
(* the Scanner of the create path, checkOverlapWithRecurring with the      *)
(* booking itself excluded, reports a conflict for the new room and        *)
(* interval.                                                               *)
(***************************************************************************)
MovingUpdate(r, B) ==
    /\ r.op = "update"
    /\ r.id \in DOMAIN B
    /\ (role(r.actor) = "admin" \/ B[r.id].bookedBy = r.actor)
    /\ (r.room # NoText \/ r.startTime # NoTime \/ r.endTime # NoTime)

C29_UpdateUsesFullScanner ==
    (pc[P] = "done" /\ MovingUpdate(req[P], pre[P].bookings))
    => LET t == UpdateTarget(req[P], pre[P].bookings)
       IN  resp[P].kind = "conflict"
           <=> checkOverlapWithRecurring(pre[P].bookings, pre[P].groups, t.room,
                                         t.startTime, t.endTime, req[P].id)

(***************************************************************************)
(* C30.  For every booking an admin's create cancels by override, single   *)
(* or recurring, the request adds exactly one admin_override notification  *)
(* to the booking's organizer that refers to the booking, and the booking  *)
(* records the admin as cancelledBy.                                       *)
(***************************************************************************)
\* The bookings the request at hand has cancelled so far.
Overridden(p) ==
    {i \in DOMAIN pre[p].bookings :
        /\ i \in DOMAIN bookings
        /\ pre[p].bookings[i].status = "confirmed"
        /\ bookings[i].status = "cancelled"}

NoticesAdded(p, n) ==
    CopiesIn(n, notifications) - CopiesIn(n, pre[p].notifications)

C30_OneNoticePerOverride ==
    (req[P].op = "create" /\ IsAdmin(P) /\ pc[P] # "idle")
    => \A i \in DOMAIN pre[P].bookings :
          LET old == pre[P].bookings[i]
              n == Notice(old.bookedBy, "admin_override", i, old.room)
          IN  /\ i \in Overridden(P)
                 => /\ NoticesAdded(P, n) = 1
                    /\ bookings[i].cancelledBy = req[P].actor
              /\ i \notin Overridden(P) => NoticesAdded(P, n) = 0

\* Reached: an admin's create has ended after cancelling two bookings of
\* different organizers, one of them the admin's own.
C30_Witness ==
    /\ req[P].op = "create" /\ IsAdmin(P) /\ pc[P] = "done"
    /\ \E i, j \in Overridden(P) :
          /\ pre[P].bookings[i].bookedBy # pre[P].bookings[j].bookedBy
          /\ pre[P].bookings[i].bookedBy = req[P].actor

(***************************************************************************)
(* C31.  No stored booking has status completed: no operation writes it.   *)
(***************************************************************************)
C31_NeverCompleted ==
    \A i \in DOMAIN bookings : bookings[i].status # "completed"

(***************************************************************************)
(* C32.  The mail never changes the outcome of a create or a cancel: the   *)
(* handler's last step answers and writes the same whether or not a mail   *)
(* is sent, it answers while the mail is still pending, and the mail's     *)
(* settling, as sent or as failed, changes neither store nor response.     *)
(***************************************************************************)
C32_Step ==
    /\ (pc[P] = "notify" /\ pc'[P] = "done")
       => /\ resp'[P].kind = IF req[P].room \in rooms THEN "success" ELSE "error"
          /\ bookings' = bookings /\ rooms' = rooms /\ groups' = groups
    /\ (pc[P] = "xSave" /\ pc'[P] = "done")
       => LET d == loc[P].docs[1]
          IN  IF d.id \in DOMAIN bookings /\ PreSaveOk(d.doc)
              THEN /\ resp'[P].kind = "success"
                   /\ bookings' = Cancelled(bookings, d, req[P].actor, now)
              ELSE /\ resp'[P].kind = "error"
                   /\ bookings' = bookings
    /\ mail'[P] \in {"sent", "failed"} /\ mail[P] = "pending"
       => UNCHANGED <<store, resp, pc>>
    /\ mail'[P] = "pending" /\ mail[P] # "pending"
       => pc'[P] = "done" /\ resp'[P].kind = "success"

C32_MailNeverDecides == [][C32_Step]_vars

\* Reached: a cancel has answered with success and its mail failed later.
C32_Witness ==
    /\ pc[P] = "done" /\ req[P].op = "cancel"
    /\ resp[P].kind = "success"
    /\ mail[P] = "failed"
    /\ bookings[req[P].id].status = "cancelled"
    /\ bookings[req[P].id].room \in rooms

(***************************************************************************)
(* C33.  A create sends no meeting_scheduled notification to its own       *)
(* organizer, an admin's create sends no user_action_alert, and a create   *)
(* by a non-admin that succeeds sends one user_action_alert to each admin. *)
(***************************************************************************)
\* The notifications the request at hand has added, with their counts.
NewNotices(p) ==
    {n \in DOMAIN notifications : NoticesAdded(p, n) > 0}

C33_CreateNotices ==
    (pc[P] = "done" /\ req[P].op = "create")
    => /\ \A n \in NewNotices(P) :
             n.type = "meeting_scheduled" => n.user # req[P].actor
       /\ IsAdmin(P) => \A n \in NewNotices(P) : n.type # "user_action_alert"
       /\ (~IsAdmin(P) /\ resp[P].kind = "success")
          => \A admin \in Admins :
                \E id \in Added :
                   /\ NoticesAdded(P, Notice(admin, "user_action_alert", id,
                                             req[P].room)) = 1
                   /\ \A n \in NewNotices(P) :
                         (n.type = "user_action_alert" /\ n.user = admin)
                         => n.booking = id

(***************************************************************************)
(* C34.  generateRecurringDates terminates for every anchor, end date and  *)
(* weekday in 0..6: the weekday search takes at most 6 turns, the weekly   *)
(* loop at most (end - first) / 7 + 1 turns, and the call returns.         *)
(***************************************************************************)
WeeklyTurnsBound ==
    LET first == FirstMatch(groups[1].startDate, groups[1].dayOfWeek)
        end == groups[1].endDate
    IN  IF first > end THEN 0
        ELSE (end - first) \div (DaysPerWeek * Day) + 1

C34_TurnsBounded ==
    /\ pc[P] = "gSearch" => loc[P].idx <= DaysPerWeek - 1
    /\ pc[P] = "gWeekly" => loc[P].idx <= WeeklyTurnsBound
    /\ (pc[P] = "done" /\ resp[P].kind = "success")
       => loc[P].dates = generateRecurringDates(groups[1].startDate, groups[1].endDate,
                                                groups[1].dayOfWeek)

C34_Terminates == []C34_TurnsBounded /\ <>(pc[P] = "done")

\* Reached: a call that took six turns to find its weekday and two or more
\* turns of the weekly loop has returned.
C34_Witness ==
    /\ pc[P] = "done" /\ resp[P].kind = "success"
    /\ loc[P].current # NoTime
    /\ Len(loc[P].dates) >= 2
    /\ loc[P].dates[1] = groups[1].startDate + (DaysPerWeek - 1) * Day

(***************************************************************************)
(* C35.  A booking does not conflict with itself on update: when the new   *)
(* interval is the booking's own or overlaps only its own old interval,    *)
(* with no other confirmed booking of the room in the way, the update is   *)
(* not rejected for conflict, be the booking standalone or an occurrence   *)
(* of a recurrence group.                                                  *)
(***************************************************************************)
\* The update keeps the booking in its room, on an interval that meets its
\* old one, and every other confirmed booking of the room is clear of it.
OwnSlotUpdate(r, B) ==
    /\ MovingUpdate(r, B)
    /\ LET t == UpdateTarget(r, B)
           old == B[r.id]
       IN  /\ t.room = old.room
           /\ t.endTime > t.startTime
           /\ old.endTime > old.startTime
           /\ Overlaps(old.startTime, old.endTime, t.startTime, t.endTime)
           /\ \A j \in ConfirmedOn(B, t.room) \ {r.id} :
                 /\ B[j].endTime > B[j].startTime
                 /\ ~Overlaps(B[j].startTime, B[j].endTime, t.startTime, t.endTime)

C35_NoSelfConflict ==
    (pc[P] = "done" /\ OwnSlotUpdate(req[P], pre[P].bookings))
    => resp[P].kind # "conflict"

\* Reached: a confirmed occurrence of a recurrence group was moved within
\* its own slot, where the group's expansion still shows the occurrence.
C35_Witness ==
    /\ pc[P] = "done" /\ OwnSlotUpdate(req[P], pre[P].bookings)
    /\ LET old == pre[P].bookings[req[P].id]
           t == UpdateTarget(req[P], pre[P].bookings)
       IN  /\ old.status = "confirmed"
           /\ old.recurrenceGroup # NoId
           /\ RecurringOverlap(pre[P].groups, t.room, t.startTime, t.endTime)
    /\ resp[P].kind = "success"
    /\ bookings[req[P].id].startTime = req[P].startTime

(***************************************************************************)
(* C36.  In every state a booking is cancelled exactly when cancelledBy    *)
(* and cancelledAt are set on it.                                          *)
(***************************************************************************)
C36_CancelMetadata ==
    \A i \in DOMAIN bookings :
        bookings[i].status = "cancelled"
        <=> (bookings[i].cancelledBy # NoText /\ bookings[i].cancelledAt # NoTime)

(***************************************************************************)
(* C37.  Once a room delete has answered with success, no confirmed        *)
(* booking that starts at or after the deletion refers to the deleted      *)
(* room, creates running alongside the deletion included.  Stated for the  *)
(* bookings that start at or after the present instant, which is never     *)
(* before the deletion.                                                    *)
(***************************************************************************)
C37_NoBookingOnDeletedRoom ==
    \A p \in Procs :
        (pc[p] = "done" /\ req[p].op = "deleteRoom" /\ resp[p].kind = "success")
        => \A i \in DOMAIN bookings :
              (bookings[i].room = req[p].room /\ bookings[i].status = "confirmed")
              => bookings[i].startTime < now

(***************************************************************************)
(* C38.  Every request has exactly one outcome: while its handler runs     *)
(* nothing has been sent, when the handler is over one response or one     *)
(* error has, and every handler that started comes to its end.             *)
(***************************************************************************)
C38_AtMostOne ==
    /\ pc[P] \notin {"idle", "done"} => resp[P].sent = 0 /\ resp[P].kind = "none"
    /\ (pc[P] = "done" /\ req[P].op # "none")
       => resp[P].sent = 1 /\ resp[P].kind # "none"

C38_ExactlyOneOutcome ==
    /\ []C38_AtMostOne
    /\ (pc[P] \notin {"idle", "done"}) ~> (pc[P] = "done")

\* Reached: an admin's weekly create that cancelled a booking and wrote its
\* occurrence has ended in its catch block, with the one error.
C38_Witness ==
    /\ WeeklyCreateDone(P, TRUE)
    /\ Overridden(P) # {} /\ Added # {}
    /\ resp[P].kind = "error" /\ resp[P].sent = 1

====
